---- MODULE Spec2Model ----
(***************************************************************************)
(* A model of lxclib.Container (src/lxclib/main.py): the lifecycle         *)
(* operations stop / start / create / destroy / restart / attach, the      *)
(* state probe they decide on, and the delegated commands they run under   *)
(* systemd-run.  One caller runs one operation at a time; the container    *)
(* runtime may change the container's state at any moment in between.      *)
(***************************************************************************)
EXTENDS Integers, Sequences, FiniteSets, TLC

VARIABLES
    real,        \* what the runtime holds for the container: a state word, or ABSENT (no record)
    params,      \* self.distribution / self.release / self.architecture ("None" or a value)
    call,        \* the lifecycle operation the caller invoked last, with its arguments
    stack,       \* Python call stack of that operation: frames of Container methods
    probes,      \* values returned by self.state during the current call, in order
    log,         \* delegated commands issued by the current call, in order; done and rc once exited
    result,      \* how the current call ended: "none", "True", "False" or an exception name
    interfered,  \* the runtime state was changed from outside since the call began
    error,       \* the SystemdRunError the current call raised: its command and output
    tool,        \* the lxc-info binary can be invoked on this host
    ips,         \* the runtime's record of the container: its IP addresses, in the order lxc-info prints them
    pid,         \* the runtime's record of the container: whether lxc-info prints a PID line
    infos,       \* what the last Container.info() returned or raised
    other        \* the delegated command a second caller of this library has in flight

vars == <<real, params, call, stack, probes, log, result, interfered, error, tool, ips, pid, infos, other>>

----------------------------------------------------------------------------
(* Vocabulary *)

\* Container.State members (main.py 35-40)
State == {"RUNNING", "STOPPED", "ABSENT"}

\* What the runtime can hold for a name: no record, or a container in one of
\* the runtime's states; FROZEN stands for the words State has no member for.
RealStates == {"ABSENT", "STOPPED", "RUNNING", "FROZEN"}

Exceptions == {"MustUseForceError", "MissingInformationsError", "SystemdRunError", "KeyError", "IndexError",
               "FileNotFoundError"}

Name == "c1"

NoCall == [op |-> "none", command |-> "None", bind |-> FALSE, force_run |-> FALSE, force |-> FALSE, check |-> FALSE]

----------------------------------------------------------------------------
(* Text helpers: a text is a sequence of tokens; ":" " " and "\n" are tokens *)

IsSpace(t) == t \in {" ", "\n"}

RECURSIVE LStrip(_)
LStrip(s) == IF s # <<>> /\ IsSpace(Head(s)) THEN LStrip(Tail(s)) ELSE s

RECURSIVE RStrip(_)
RStrip(s) == IF s # <<>> /\ IsSpace(s[Len(s)]) THEN RStrip(SubSeq(s, 1, Len(s) - 1)) ELSE s

\* str.strip()
Strip(s) == RStrip(LStrip(s))

\* str.upper() on one token
UpperTok(t) ==
    CASE t = "running" -> "RUNNING"
      [] t = "stopped" -> "STOPPED"
      [] t = "frozen"  -> "FROZEN"
      [] t = "absent"  -> "ABSENT"
      [] t = "State"   -> "STATE"
      [] OTHER         -> t

Upper(s) == [i \in 1..Len(s) |-> UpperTok(s[i])]

\* str.split(sep): the pieces between the separators, empty pieces kept
RECURSIVE SplitAcc(_, _, _)
SplitAcc(s, sep, cur) ==
    IF s = <<>> THEN <<cur>>
    ELSE IF Head(s) = sep THEN <<cur>> \o SplitAcc(Tail(s), sep, <<>>)
    ELSE SplitAcc(Tail(s), sep, Append(cur, Head(s)))

Split(s, sep) == SplitAcc(s, sep, <<>>)

----------------------------------------------------------------------------
(* The state probe *)

\* lxc-info --state --name <name>: whether the binary was found, exit status and standard output
LxcInfoState(r) ==
    IF ~tool THEN [found |-> FALSE, rc |-> 0, out |-> <<>>]
    ELSE IF r = "ABSENT" THEN [found |-> TRUE, rc |-> 1, out |-> <<>>]
    ELSE [found |-> TRUE, rc |-> 0, out |-> <<"State", ":", " ", " ", r, "\n">>]

\* Container.State[_state]
StateLookup(w) == IF Len(w) = 1 /\ w[1] \in State THEN w[1] ELSE "KeyError"

\* a probe that takes every failure of check_output for an absent container
state_mutCatchAll(resp) ==
    IF ~resp.found \/ resp.rc # 0 THEN "ABSENT"
    ELSE LET parts == Split(resp.out, ":")
         IN  IF Len(parts) < 2 THEN "IndexError"
             ELSE StateLookup(Upper(Strip(parts[2])))

\* Container.state: the value returned, or the exception raised
\* (check_output raises FileNotFoundError, which is no CalledProcessError, when the binary is missing)
state(resp) ==
    IF ~resp.found THEN "FileNotFoundError"
    ELSE IF resp.rc # 0 THEN "ABSENT"
    ELSE LET parts == Split(resp.out, ":")
         IN  IF Len(parts) < 2 THEN "IndexError"
             ELSE StateLookup(Upper(Strip(parts[2])))

\* self.state evaluated now
Probe == state(LxcInfoState(real))

----------------------------------------------------------------------------
(* Container.info *)

\* str.lower() on one token
LowerTok(t) ==
    CASE t = "State"   -> "state"
      [] t = "IP"      -> "ip"
      [] t = "PID"     -> "pid"
      [] t = "RUNNING" -> "running"
      [] t = "STOPPED" -> "stopped"
      [] t = "FROZEN"  -> "frozen"
      [] OTHER         -> t

Lower(s) == [i \in 1..Len(s) |-> LowerTok(s[i])]

\* the addresses a container may have, as lxc-info prints them
Ipv4 == <<"10.0.0.2">>
Ipv6 == <<"fe80", ":", ":", "1">>
IpValues == {Ipv4, Ipv6}

PidText == <<"1234">>

\* the lines of one key: "<key>:   <value>\n"
InfoLineText(key, value) == <<key, ":", " ", " ">> \o value \o <<"\n">>

RECURSIVE IpLines(_)
IpLines(l) == IF l = <<>> THEN <<>> ELSE InfoLineText("IP", Head(l)) \o IpLines(Tail(l))

\* lxc-info --state --ips --pid --name <name>: whether the binary was found, exit status, standard output
LxcInfoAll(r, l, p) ==
    IF ~tool THEN [found |-> FALSE, rc |-> 0, out |-> <<>>]
    ELSE IF r = "ABSENT" THEN [found |-> TRUE, rc |-> 1, out |-> <<>>]
    ELSE [found |-> TRUE, rc |-> 0,
          out |-> InfoLineText("State", <<r>>)
                  \o (IF p THEN InfoLineText("PID", PidText) ELSE <<>>)
                  \o IpLines(l)]

\* values of the dict info() returns: a str, a list of str, or a member of Container.State
StrVal(text) == [kind |-> "str", v |-> <<text>>]
ListVal(texts) == [kind |-> "list", v |-> texts]
StateVal(st) == [kind |-> "State", v |-> <<<<st>>>>]

\* info() was not called
NoInfos == [kind |-> "none", d |-> <<>>, exc |-> "none"]

InfosDict(d) == [kind |-> "dict", d |-> d, exc |-> "none"]
InfosRaise(e) == [kind |-> "raise", d |-> <<>>, exc |-> e]

\* one turn of the loop of info(): the line's key and value put into _infos
InfoLine(acc, line) ==
    LET _info == Split(line, ":")
        _info_key == Lower(_info[1])
        value == Lower(Strip(_info[2]))
    IN  IF _info_key \in DOMAIN acc
        THEN [acc EXCEPT ![_info_key] = ListVal(Append(@.v, value))]
        ELSE acc @@ (_info_key :> StrVal(value))

RECURSIVE InfoLoop(_, _)
InfoLoop(acc, lines) ==
    IF lines = <<>> THEN acc ELSE InfoLoop(InfoLine(acc, Head(lines)), Tail(lines))

\* an info() that reports the extended fields of an absent container too
info_mutAbsentWithFields(resp) ==
    IF ~resp.found THEN InfosRaise("FileNotFoundError")
    ELSE IF resp.rc # 0
    THEN InfosDict((<<"state">> :> StateVal("ABSENT")) @@ (<<"ip">> :> ListVal(<<>>)))
    ELSE InfosRaise("KeyError")

\* Container.info: the dict returned, or the exception raised
info(resp) ==
    IF ~resp.found THEN InfosRaise("FileNotFoundError")
    ELSE IF resp.rc # 0 THEN InfosDict(<<"state">> :> StateVal("ABSENT"))
    ELSE LET lines == Split(Strip(resp.out), "\n")
         IN  IF \E i \in 1..Len(lines) : Len(Split(lines[i], ":")) < 2
             THEN InfosRaise("IndexError")
             ELSE LET _infos == InfoLoop(<<>>, lines)
                  IN  IF <<"state">> \in DOMAIN _infos
                      THEN LET st == StateLookup(Upper(_infos[<<"state">>].v[1]))
                           IN  IF st = "KeyError" THEN InfosRaise("KeyError")
                               ELSE InfosDict([_infos EXCEPT ![<<"state">>] = StateVal(st)])
                      ELSE InfosDict(_infos)

----------------------------------------------------------------------------
(* Delegated commands *)

\* unit_name = "lxc-<op>-" + self.name
UnitName(op) == <<"lxc-" \o op \o "-", Name>>

\* Container._systemd_run: complete_command
CompleteCommand(unit_name, command) ==
    <<"systemd-run", "--unit", unit_name, "--user", "--scope", "-p", "Delegate=yes", "--">> \o command

\* the runtime command each _systemd_run_<op> builds
RuntimeCommand(op, inner) ==
    CASE op = "stop"    -> <<"lxc-stop", "--name", Name>>
      [] op = "start"   -> <<"lxc-start", "--name", Name>>
      [] op = "create"  -> <<"lxc-create", "--template", "download", "--name", Name, "--",
                            "--dist", params.distribution, "--release", params.release,
                            "--arch", params.architecture>>
      [] op = "destroy" -> <<"lxc-destroy", "--name", Name>>
      [] op = "attach"  -> <<"lxc-attach", "--name", Name>>
                            \o (IF inner # "None" THEN <<"--", inner>> ELSE <<>>)

\* one delegated command as the supervisor is asked to run it
Delegated(op, inner, bind) ==
    [op |-> op, unit |-> UnitName(op),
     argv |-> CompleteCommand(UnitName(op), RuntimeCommand(op, inner)),
     bind |-> bind, done |-> FALSE, rc |-> 0, stdout |-> "", stderr |-> ""]

\* what a failing child may have written to its standard output and to its standard error
ChildStdout == {"", "usage"}
ChildStderr == {"", "no such container"}

NoError == [raised |-> FALSE, command |-> <<>>, output |-> "None"]

\* a _systemd_run that attaches the captured output to the error in bind mode too
SystemdRunError_mutBindCaptures(c) ==
    [raised |-> TRUE, command |-> c.argv, output |-> c.stdout]

\* a _systemd_run that names only the runtime command in the error
SystemdRunError_mutBareCommand(c) ==
    [raised |-> TRUE, command |-> SubSeq(c.argv, 9, Len(c.argv)),
     output |-> IF c.bind THEN "None" ELSE c.stdout]

\* Container._systemd_run: the SystemdRunError raised for the exited command c.
\* bind: output=None; else output=err.output.decode(), the captured standard output
\* (with capture_output=True the standard error is in err.stderr, which is not read)
SystemdRunError(c) ==
    [raised |-> TRUE, command |-> c.argv, output |-> IF c.bind THEN "None" ELSE c.stdout]

\* states of the container in which the runtime's tool can do its work
CanSucceed(op) ==
    CASE op = "stop"    -> {"RUNNING", "FROZEN"}
      [] op = "start"   -> {"STOPPED"}
      [] op = "create"  -> {"ABSENT"}
      [] op = "destroy" -> {"STOPPED"}
      [] op = "attach"  -> {"RUNNING"}

\* state of the container after the tool did its work
Effect(op, r) ==
    CASE op = "stop"    -> "STOPPED"
      [] op = "start"   -> "RUNNING"
      [] op = "create"  -> "STOPPED"
      [] op = "destroy" -> "ABSENT"
      [] op = "attach"  -> r

----------------------------------------------------------------------------
(* Decisions of the lifecycle methods, on the value a probe returned *)

\* a stop that never finds the container already stopped
stop_decide_mutNeverNoop(st, check) ==
    IF ~check THEN "run" ELSE "return_true"

\* a stop whose test is inverted: a running container is taken for stopped
stop_decide_mutInverted(st, check) ==
    IF st = "RUNNING" THEN "return_false"
    ELSE IF ~check THEN "run" ELSE "return_true"

\* Container.stop
stop_decide(st, check) ==
    IF st = "STOPPED" THEN "return_false"
    ELSE IF ~check THEN "run" ELSE "return_true"

\* Container.start, first test
start_decide1(st) == IF st = "RUNNING" THEN "return_false" ELSE "next"

\* a start that refuses an absent container whatever force says
start_decide2_mutIgnoreForce(st, force) ==
    IF st = "ABSENT" THEN "MustUseForceError" ELSE "next"

\* a start that never asks for force
start_decide2_mutNoForceNeeded(st, force) ==
    "next"

\* Container.start, second test
start_decide2(st, force) ==
    IF st = "ABSENT" /\ ~force THEN "MustUseForceError" ELSE "next"

\* a create whose test is inverted: it acts on the containers that exist
create_decide_mutInverted(st, check) ==
    IF st = "ABSENT" THEN "return_false"
    ELSE IF ~check THEN "run" ELSE "return_true"

\* Container.create
create_decide(st, check) ==
    IF st # "ABSENT" THEN "return_false"
    ELSE IF ~check THEN "run" ELSE "return_true"

\* a test of the template parameters that forgets release and architecture
MissingInformations_mutDistOnly(p) ==
    p.distribution = "None"

\* Container._systemd_run_create, the test of the template parameters
MissingInformations(p) ==
    p.distribution = "None" \/ p.release = "None" \/ p.architecture = "None"

\* Container.destroy, first test
destroy_decide1(st) == IF st = "ABSENT" THEN "return_false" ELSE "next"

\* a destroy that never asks for force
destroy_decide2_mutNoForceNeeded(lhs, force) ==
    "next"

\* Container.destroy, second test: lhs is the left operand's probe
destroy_decide2(lhs, force) ==
    IF lhs # "STOPPED" /\ ~force THEN "MustUseForceError" ELSE "next"

\* an attach that asks for force only when the container is absent
attach_decide_mutStoppedPasses(st, force_run, force) ==
    LET fr == force_run \/ force
    IN  IF st = "ABSENT" /\ ~fr THEN "MustUseForceError" ELSE "next"

\* Container.attach
attach_decide(st, force_run, force) ==
    LET fr == force_run \/ force
    IN  IF st # "RUNNING" /\ ~fr THEN "MustUseForceError" ELSE "next"

----------------------------------------------------------------------------
(* The call stack *)

Frame(fn, force, check) == [fn |-> fn, pc |-> "entry", force |-> force, check |-> check, lhs |-> "none"]

Top == stack[Len(stack)]

Running == stack # <<>>

CommandInFlight == log # <<>> /\ ~log[Len(log)].done

AtPc(fn, pc) == Running /\ ~CommandInFlight /\ Top.fn = fn /\ Top.pc = pc

\* the top frame moves to pc
Goto(pc) == stack' = [stack EXCEPT ![Len(stack)].pc = pc]

\* the top frame returns v: to its caller, or as the result of the call
Return(v) ==
    /\ stack' = SubSeq(stack, 1, Len(stack) - 1)
    /\ result' = IF Len(stack) = 1 THEN v ELSE result

\* an exception no method catches ends the call
Raise(e) ==
    /\ stack' = <<>>
    /\ result' = e

\* the top frame moves to pc and calls fn
CallFrom(pc, fn, force, check) ==
    stack' = Append([stack EXCEPT ![Len(stack)].pc = pc], Frame(fn, force, check))

\* _systemd_run starts the command of op
Issue(op, inner, bind) ==
    /\ log' = Append(log, Delegated(op, inner, bind))
    /\ Goto("run")

\* what a method does with the outcome "return_false" / "return_true" / "run" of its test
Act(d, op, inner, bind) ==
    CASE d = "return_false" -> Return("False") /\ UNCHANGED log
      [] d = "return_true"  -> Return("True") /\ UNCHANGED log
      [] d = "run"          -> Issue(op, inner, bind) /\ UNCHANGED result

----------------------------------------------------------------------------
(* Initial state: a Container object was constructed, nothing was called *)

ParamValues == {"None", "set"}


\* no second caller has a command in flight
NoOther == [op |-> "none", unit |-> <<>>]

Params == [distribution : ParamValues, release : ParamValues, architecture : ParamValues]

Init ==
    /\ real \in RealStates
    /\ params \in Params
    /\ call = NoCall
    /\ stack = <<>>
    /\ probes = <<>>
    /\ log = <<>>
    /\ result = "none"
    /\ interfered = FALSE
    /\ error = NoError
    /\ tool \in BOOLEAN
    /\ ips = <<>>
    /\ pid = FALSE
    /\ infos = NoInfos
    /\ other = NoOther

----------------------------------------------------------------------------
(* The caller invokes a lifecycle operation *)

Ops == {"stop", "start", "create", "destroy", "restart", "attach"}

\* the argument lists of the public methods; parameters a method does not have keep their default
Calls ==
    { c \in [op : Ops, command : {"None", "ls"}, bind : BOOLEAN, force_run : BOOLEAN,
             force : BOOLEAN, check : BOOLEAN] :
        /\ c.op # "attach" => (c.command = "None" /\ ~c.bind /\ ~c.force_run)
        /\ c.op \in {"stop", "create"} => ~c.force }

Invoke(c) ==
    /\ call = NoCall
    /\ call' = c
    /\ stack' = <<Frame(c.op, c.force, c.check)>>
    /\ UNCHANGED <<real, params, probes, log, result, interfered, error, tool, ips, pid, infos, other>>

\* Container.__init__: once a call has ended the caller builds the Container of its next call
NewContainer ==
    /\ call # NoCall
    /\ ~Running
    /\ params' \in Params
    /\ call' = NoCall
    /\ probes' = <<>>
    /\ log' = <<>>
    /\ result' = "none"
    /\ interfered' = FALSE
    /\ error' = NoError
    /\ UNCHANGED <<real, stack, tool, ips, pid, infos, other>>

----------------------------------------------------------------------------
(* Container.stop *)

StopProbe ==
    /\ AtPc("stop", "entry")
    /\ LET st == Probe IN
        /\ probes' = Append(probes, st)
        /\ IF st \in Exceptions
           THEN Raise(st) /\ UNCHANGED log
           ELSE Act(stop_decide(st, Top.check), "stop", "None", FALSE)
    /\ UNCHANGED <<real, params, call, interfered, error, tool, ips, pid, infos, other>>

----------------------------------------------------------------------------
(* Container.create *)

\* a create that runs its command before it tests the template parameters
CreateProbe_mutLateTest ==
    /\ AtPc("create", "entry")
    /\ LET st == Probe IN
        /\ probes' = Append(probes, st)
        /\ IF st \in Exceptions
           THEN Raise(st) /\ UNCHANGED log
           ELSE LET d == create_decide(st, Top.check) IN
                IF d = "run" /\ MissingInformations(params)
                THEN /\ log' = Append(log, [Delegated("create", "None", FALSE) EXCEPT !.done = TRUE, !.rc = 1])
                     /\ Raise("MissingInformationsError")
                ELSE Act(d, "create", "None", FALSE)
    /\ UNCHANGED <<real, params, call, interfered, error, tool, ips, pid, infos, other>>

CreateProbe ==
    /\ AtPc("create", "entry")
    /\ LET st == Probe IN
        /\ probes' = Append(probes, st)
        /\ IF st \in Exceptions
           THEN Raise(st) /\ UNCHANGED log
           ELSE LET d == create_decide(st, Top.check) IN
                IF d = "run" /\ MissingInformations(params)
                THEN Raise("MissingInformationsError") /\ UNCHANGED log
                ELSE Act(d, "create", "None", FALSE)
    /\ UNCHANGED <<real, params, call, interfered, error, tool, ips, pid, infos, other>>

----------------------------------------------------------------------------
(* Container.start *)

StartProbe1 ==
    /\ AtPc("start", "entry")
    /\ LET st == Probe IN
        /\ probes' = Append(probes, st)
        /\ IF st \in Exceptions THEN Raise(st)
           ELSE IF start_decide1(st) = "return_false" THEN Return("False")
           ELSE Goto("l171") /\ UNCHANGED result
    /\ UNCHANGED <<real, params, call, log, interfered, error, tool, ips, pid, infos, other>>

StartProbe2 ==
    /\ AtPc("start", "l171")
    /\ LET st == Probe IN
        /\ probes' = Append(probes, st)
        /\ IF st \in Exceptions THEN Raise(st)
           ELSE IF start_decide2(st, Top.force) = "MustUseForceError" THEN Raise("MustUseForceError")
           ELSE CallFrom("l174", "create", FALSE, Top.check) /\ UNCHANGED result
    /\ UNCHANGED <<real, params, call, log, interfered, error, tool, ips, pid, infos, other>>

StartRun ==
    /\ AtPc("start", "l174")
    /\ Act(IF ~Top.check THEN "run" ELSE "return_true", "start", "None", FALSE)
    /\ UNCHANGED <<real, params, call, probes, interfered, error, tool, ips, pid, infos, other>>

----------------------------------------------------------------------------
(* Container.destroy *)

DestroyProbe1 ==
    /\ AtPc("destroy", "entry")
    /\ LET st == Probe IN
        /\ probes' = Append(probes, st)
        /\ IF st \in Exceptions THEN Raise(st)
           ELSE IF destroy_decide1(st) = "return_false" THEN Return("False")
           ELSE Goto("l190") /\ UNCHANGED result
    /\ UNCHANGED <<real, params, call, log, interfered, error, tool, ips, pid, infos, other>>

\* self.state, the left operand of != on line 190
DestroyProbe2 ==
    /\ AtPc("destroy", "l190")
    /\ LET st == Probe IN
        /\ probes' = Append(probes, st)
        /\ IF st \in Exceptions THEN Raise(st)
           ELSE stack' = [stack EXCEPT ![Len(stack)].pc = "l190rhs", ![Len(stack)].lhs = st]
                /\ UNCHANGED result
    /\ UNCHANGED <<real, params, call, log, interfered, error, tool, ips, pid, infos, other>>

\* a destroy that calls self.stop() without handing check down
DestroyProbe3_mutStopUnchecked ==
    /\ AtPc("destroy", "l190rhs")
    /\ LET st == Probe IN
        /\ probes' = Append(probes, st)
        /\ IF st \in Exceptions THEN Raise(st)
           ELSE IF destroy_decide2(Top.lhs, Top.force) = "MustUseForceError" THEN Raise("MustUseForceError")
           ELSE CallFrom("l193", "stop", FALSE, FALSE) /\ UNCHANGED result
    /\ UNCHANGED <<real, params, call, log, interfered, error, tool, ips, pid, infos, other>>

\* self.state.STOPPED, the right operand: a probe whose value only selects the member STOPPED
DestroyProbe3 ==
    /\ AtPc("destroy", "l190rhs")
    /\ LET st == Probe IN
        /\ probes' = Append(probes, st)
        /\ IF st \in Exceptions THEN Raise(st)
           ELSE IF destroy_decide2(Top.lhs, Top.force) = "MustUseForceError" THEN Raise("MustUseForceError")
           ELSE CallFrom("l193", "stop", FALSE, Top.check) /\ UNCHANGED result
    /\ UNCHANGED <<real, params, call, log, interfered, error, tool, ips, pid, infos, other>>

DestroyRun ==
    /\ AtPc("destroy", "l193")
    /\ Act(IF ~Top.check THEN "run" ELSE "return_true", "destroy", "None", FALSE)
    /\ UNCHANGED <<real, params, call, probes, interfered, error, tool, ips, pid, infos, other>>

----------------------------------------------------------------------------
(* Container.restart *)

RestartStop ==
    /\ AtPc("restart", "entry")
    /\ CallFrom("l200", "stop", FALSE, Top.check)
    /\ UNCHANGED <<real, params, call, probes, log, result, interfered, error, tool, ips, pid, infos, other>>

RestartStart ==
    /\ AtPc("restart", "l200")
    /\ CallFrom("l201", "start", Top.force, Top.check)
    /\ UNCHANGED <<real, params, call, probes, log, result, interfered, error, tool, ips, pid, infos, other>>

RestartReturn ==
    /\ AtPc("restart", "l201")
    /\ Return("True")
    /\ UNCHANGED <<real, params, call, probes, log, interfered, error, tool, ips, pid, infos, other>>

----------------------------------------------------------------------------
(* Container.attach *)

AttachProbe ==
    /\ AtPc("attach", "entry")
    /\ LET st == Probe IN
        /\ probes' = Append(probes, st)
        /\ IF st \in Exceptions THEN Raise(st)
           ELSE IF attach_decide(st, call.force_run, call.force) = "MustUseForceError"
                THEN Raise("MustUseForceError")
           ELSE CallFrom("l216", "start", call.force, Top.check) /\ UNCHANGED result
    /\ UNCHANGED <<real, params, call, log, interfered, error, tool, ips, pid, infos, other>>

AttachRun ==
    /\ AtPc("attach", "l216")
    /\ Act(IF ~Top.check THEN "run" ELSE "return_true", "attach", call.command, call.bind)
    /\ UNCHANGED <<real, params, call, probes, interfered, error, tool, ips, pid, infos, other>>

----------------------------------------------------------------------------
(* Container._systemd_run: the command in flight ends *)

\* exit status 0: the tool did its work; the method that ran it returns True
CommandSucceeds ==
    /\ CommandInFlight
    /\ LET c == log[Len(log)] IN
        /\ real \in CanSucceed(c.op)
        /\ real' = Effect(c.op, real)
        /\ log' = [log EXCEPT ![Len(log)].done = TRUE, ![Len(log)].rc = 0]
    /\ Return("True")
    /\ UNCHANGED <<params, call, probes, interfered, error, tool, ips, pid, infos, other>>

\* a _systemd_run that does not raise: the failure is lost and the method goes on
CommandFails_mutSwallow ==
    /\ CommandInFlight
    /\ \E so \in ChildStdout, se \in ChildStderr :
         log' = [log EXCEPT ![Len(log)].done = TRUE, ![Len(log)].rc = 1,
                            ![Len(log)].stdout = so, ![Len(log)].stderr = se]
    /\ Return("True")
    /\ UNCHANGED <<real, params, call, probes, interfered, error, tool, ips, pid, infos, other>>

\* non-zero exit status, with or without bind: SystemdRunError
CommandFails ==
    /\ CommandInFlight
    /\ \E so \in ChildStdout, se \in ChildStderr :
         LET c == [log[Len(log)] EXCEPT !.done = TRUE, !.rc = 1, !.stdout = so, !.stderr = se] IN
           /\ log' = [log EXCEPT ![Len(log)] = c]
           /\ error' = SystemdRunError(c)
    /\ Raise("SystemdRunError")
    /\ UNCHANGED <<real, params, call, probes, interfered, tool, ips, pid, infos, other>>

----------------------------------------------------------------------------
(* The runtime's record of the container changes from outside this caller,  *)
(* between two steps of the operation in progress                          *)

ExternalChange ==
    /\ Running
    /\ \E r \in RealStates \ {real} : real' = r
    /\ interfered' = TRUE
    /\ UNCHANGED <<params, call, stack, probes, log, result, error, tool, ips, pid, infos, other>>

----------------------------------------------------------------------------

\* the steps of this caller
Lifecycle ==
    \/ \E c \in Calls : Invoke(c)
    \/ NewContainer
    \/ StopProbe
    \/ CreateProbe
    \/ StartProbe1
    \/ StartProbe2
    \/ StartRun
    \/ DestroyProbe1
    \/ DestroyProbe2
    \/ DestroyProbe3
    \/ DestroyRun
    \/ RestartStop
    \/ RestartStart
    \/ RestartReturn
    \/ AttachProbe
    \/ AttachRun
    \/ CommandSucceeds
    \/ CommandFails

Next ==
    \/ Lifecycle
    \/ ExternalChange

Spec == Init /\ [][Next]_vars

----------------------------------------------------------------------------
(* A second caller of the library works on the same container: only the     *)
(* delegated command it has in flight is kept                               *)

\* the probe values on which a lifecycle method of the second caller, called
\* without force, runs the command of op
OtherMayIssue(op) ==
    CASE op = "stop"    -> Probe \in {"ABSENT", "RUNNING"}
      [] op = "start"   -> Probe = "STOPPED"
      [] op = "create"  -> Probe = "ABSENT"
      [] op = "destroy" -> Probe = "STOPPED"
      [] op = "attach"  -> Probe = "RUNNING"

\* the second caller's method probes and hands its command to systemd-run
OtherIssue(op) ==
    /\ other = NoOther
    /\ OtherMayIssue(op)
    /\ other' = [op |-> op, unit |-> UnitName(op)]
    /\ UNCHANGED <<real, params, call, stack, probes, log, result, interfered, error, tool, ips, pid, infos>>

\* the second caller's command ends, having done its work or not
OtherExit ==
    /\ other # NoOther
    /\ \/ real \in CanSucceed(other.op) /\ real' = Effect(other.op, real)
       \/ real' = real
    /\ interfered' = (interfered \/ (Running /\ real' # real))
    /\ other' = NoOther
    /\ UNCHANGED <<params, call, stack, probes, log, result, error, tool, ips, pid, infos>>

InitOverlap ==
    /\ Init
    /\ tool
    /\ params = [distribution |-> "set", release |-> "set", architecture |-> "set"]

NextOverlap ==
    \/ Lifecycle
    \/ \E op \in Ops \ {"restart"} : OtherIssue(op)
    \/ OtherExit

SpecOverlap == InitOverlap /\ [][NextOverlap]_vars

----------------------------------------------------------------------------
(* The read-only calls, Container.info() and Container.state, on every      *)
(* record the runtime may hold for the container                            *)

MaxIps == 2

RECURSIVE SeqsUpTo(_, _)
SeqsUpTo(S, n) ==
    IF n = 0 THEN {<<>>}
    ELSE LET shorter == SeqsUpTo(S, n - 1)
         IN  shorter \cup {Append(q, x) : q \in shorter, x \in S}

InitInfo ==
    /\ real \in RealStates
    /\ ips \in SeqsUpTo(IpValues, MaxIps)
    /\ pid \in BOOLEAN
    /\ real \in {"ABSENT", "STOPPED"} => (ips = <<>> /\ ~pid)
    /\ tool \in BOOLEAN
    /\ params = [distribution |-> "None", release |-> "None", architecture |-> "None"]
    /\ call = NoCall
    /\ stack = <<>>
    /\ probes = <<>>
    /\ log = <<>>
    /\ result = "none"
    /\ interfered = FALSE
    /\ error = NoError
    /\ infos = NoInfos
    /\ other = NoOther

\* the caller calls info()
InfoCall ==
    /\ infos = NoInfos
    /\ infos' = info(LxcInfoAll(real, ips, pid))
    /\ UNCHANGED <<real, params, call, stack, probes, log, result, interfered, error, tool, ips, pid, other>>

\* the caller reads the state property
StateCall ==
    /\ probes = <<>>
    /\ probes' = <<Probe>>
    /\ UNCHANGED <<real, params, call, stack, log, result, interfered, error, tool, ips, pid, infos, other>>

NextInfo ==
    \/ InfoCall
    \/ StateCall

SpecInfo == InitInfo /\ [][NextInfo]_vars

TypeOK ==
    /\ real \in RealStates
    /\ call \in Calls \cup {NoCall}
    /\ result \in {"none", "True", "False"} \cup Exceptions
    /\ interfered \in BOOLEAN
    /\ \A i \in 1..Len(probes) : probes[i] \in State \cup Exceptions
    /\ \A i \in 1..Len(log) : log[i].rc \in {0, 1} /\ log[i].done \in BOOLEAN
    /\ Len(stack) <= 3

----------------------------------------------------------------------------
(* Vocabulary of the properties *)

\* the call has ended: returned or raised
Done == call # NoCall /\ ~Running

\* the operations of the delegated commands issued so far, in order
Cmds == [i \in 1..Len(log) |-> log[i].op]

\* no delegated command of the call has exited non-zero
NoFailure == \A i \in 1..Len(log) : log[i].done => log[i].rc = 0

\* every probe of the call so far returned st, and there was one
AllProbes(st) == probes # <<>> /\ \A i \in 1..Len(probes) : probes[i] = st

FirstProbe(S) == probes # <<>> /\ probes[1] \in S

\* the Container lacks one of distribution, release, architecture
LacksParameter ==
    \E f \in {"distribution", "release", "architecture"} : params[f] = "None"

IsPrefix(s, t) == Len(s) <= Len(t) /\ \A i \in 1..Len(s) : s[i] = t[i]

\* the call issues exactly the commands of seq, one after the other has exited, and returns True
IssuesExactly(seq) ==
    /\ IsPrefix(Cmds, seq)
    /\ \A i \in 1..Len(log) : i < Len(log) => log[i].done
    /\ Done => (Cmds = seq /\ result = "True")

----------------------------------------------------------------------------
(* C1 *)

\* C1: whenever the first probe of stop() or destroy() (check=False, any force)
\* returned ABSENT, the call issues no delegated command and ends, if it has
\* ended, by returning False.
C1_AbsentStopDestroyNoop ==
    (call.op \in {"stop", "destroy"} /\ ~call.check /\ FirstProbe({"ABSENT"}))
        => (log = <<>> /\ result \in {"none", "False"})

----------------------------------------------------------------------------
(* C2 *)

\* C2 as stated: a create() that has ended on a Container lacking one of
\* distribution, release, architecture has raised MissingInformationsError and
\* issued no delegated command, whatever the state of the container.
C2_AlwaysRaises ==
    (call.op = "create" /\ LacksParameter /\ Done)
        => (result = "MissingInformationsError" /\ log = <<>>)

\* C2, amended: create() on a Container lacking one of distribution, release,
\* architecture never issues a delegated command; it raises
\* MissingInformationsError when its probe returned ABSENT and check is False,
\* and returns False without raising when its probe returned RUNNING or STOPPED.
C2_RaisesWhenAbsent ==
    (call.op = "create" /\ LacksParameter)
        => /\ log = <<>>
           /\ (Done /\ ~call.check /\ FirstProbe({"ABSENT"})) => result = "MissingInformationsError"
           /\ (Done /\ FirstProbe({"RUNNING", "STOPPED"})) => result = "False"

C2_Witness ==
    /\ Done /\ call.op = "create" /\ LacksParameter
    /\ params.distribution # "None"
    /\ probes = <<"ABSENT">> /\ result = "MissingInformationsError" /\ log = <<>>

----------------------------------------------------------------------------
(* C3 *)

\* C3 as stated: a call of any lifecycle operation that has raised
\* MustUseForceError or MissingInformationsError has issued no delegated command.
C3_RaiseBeforeAnyCommand ==
    result \in {"MustUseForceError", "MissingInformationsError"} => log = <<>>

\* C3, amended: a call of create, start, stop, destroy or attach that has raised
\* MustUseForceError or MissingInformationsError has issued no delegated
\* command, also when the state was changed from outside between its probes;
\* a restart that has raised one of them has issued at most the stop command
\* of its stop phase, and no command of the start phase that raised.
C3_RaiseBeforeAnyCommandButRestart ==
    result \in {"MustUseForceError", "MissingInformationsError"}
        => IF call.op = "restart" THEN Cmds \in {<<>>, <<"stop">>} ELSE log = <<>>

C3_Witness ==
    /\ call.op = "attach" /\ interfered
    /\ result = "MissingInformationsError"
    /\ Len(probes) = 4 /\ probes[1] = "STOPPED" /\ probes[4] = "ABSENT"
    /\ log = <<>>

----------------------------------------------------------------------------
(* C4 *)

\* C4: in a destroy(force=False) all of whose probes returned RUNNING, no
\* delegated command is issued, and the call ends by raising MustUseForceError.
C4_DestroyRunningNeedsForce ==
    (call.op = "destroy" /\ ~call.force /\ AllProbes("RUNNING"))
        => (log = <<>> /\ (Done => result = "MustUseForceError"))

C4_Witness ==
    /\ Done /\ call.op = "destroy" /\ ~call.force /\ ~call.check
    /\ AllProbes("RUNNING") /\ result = "MustUseForceError" /\ log = <<>>

----------------------------------------------------------------------------
(* C5 *)

\* C5: destroy(force=True, check=False) whose first probe returned RUNNING,
\* with no change from outside and no command failing, issues the stop command,
\* then, once stop has exited, the destroy command, nothing else, and returns True.
C5_ForcedDestroyStopsFirst ==
    (call.op = "destroy" /\ call.force /\ ~call.check /\ FirstProbe({"RUNNING"})
     /\ ~interfered /\ NoFailure)
        => IssuesExactly(<<"stop", "destroy">>)

C5_Witness ==
    /\ Done /\ call.op = "destroy" /\ call.force /\ ~call.check /\ ~interfered
    /\ probes[1] = "RUNNING" /\ Cmds = <<"stop", "destroy">>
    /\ log[1].rc = 0 /\ log[2].rc = 0 /\ result = "True" /\ real = "ABSENT"

----------------------------------------------------------------------------
(* C6 *)

\* C6: attach(force_run=False, force=False) whose probe returned STOPPED or
\* ABSENT issues no delegated command and ends by raising MustUseForceError;
\* an attach(check=False) all of whose probes returned RUNNING never returns
\* False, issues no command but attach, and has issued exactly that one when it ends.
C6_AttachNeedsRunningOrForce ==
    /\ (call.op = "attach" /\ ~call.force_run /\ ~call.force /\ FirstProbe({"STOPPED", "ABSENT"}))
          => (log = <<>> /\ (Done => result = "MustUseForceError"))
    /\ (call.op = "attach" /\ ~call.check /\ AllProbes("RUNNING"))
          => /\ IsPrefix(Cmds, <<"attach">>)
             /\ result # "False"
             /\ Done => (Cmds = <<"attach">> /\ result \in {"True", "SystemdRunError"})

C6_Witness ==
    /\ Done /\ call.op = "attach" /\ ~call.force_run /\ ~call.force /\ ~call.check
    /\ probes = <<"STOPPED">> /\ result = "MustUseForceError" /\ log = <<>>

\* the other case of C6: attach on a running container has run the attach command alone
C6_WitnessRunning ==
    /\ Done /\ call.op = "attach" /\ ~call.force_run /\ ~call.force /\ ~call.check
    /\ probes = <<"RUNNING", "RUNNING">> /\ Cmds = <<"attach">> /\ result = "True"

----------------------------------------------------------------------------
(* C7 *)

\* C7: with no change from outside and no command failing, attach(force=True,
\* check=False) whose first probe returned ABSENT, on a Container with its three
\* template parameters, issues create, start, attach, in that order and nothing
\* else; attach with force_run or force whose first probe returned STOPPED
\* issues start then attach.
C7_ForcedAttachOrder ==
    (call.op = "attach" /\ ~call.check /\ ~interfered /\ NoFailure)
        => /\ (call.force /\ ~LacksParameter /\ FirstProbe({"ABSENT"}))
                => IssuesExactly(<<"create", "start", "attach">>)
           /\ ((call.force \/ call.force_run) /\ FirstProbe({"STOPPED"}))
                => IssuesExactly(<<"start", "attach">>)

C7_Witness ==
    /\ Done /\ call.op = "attach" /\ call.force /\ ~call.check /\ ~interfered
    /\ ~LacksParameter /\ probes[1] = "ABSENT"
    /\ Cmds = <<"create", "start", "attach">> /\ NoFailure /\ result = "True"

\* the other case of C7: a stopped container, force_run alone
C7_WitnessStopped ==
    /\ Done /\ call.op = "attach" /\ call.force_run /\ ~call.force /\ ~call.check /\ ~interfered
    /\ probes[1] = "STOPPED" /\ Cmds = <<"start", "attach">> /\ NoFailure /\ result = "True"

----------------------------------------------------------------------------
(* C8 *)

\* C8: a start(force=False) all of whose probes returned ABSENT issues no
\* delegated command and ends by raising MustUseForceError; with no change
\* from outside and no command failing, start(force=True, check=False) on an
\* absent container with its template parameters issues create then start,
\* and start(check=False) on a stopped container issues start alone.
C8_StartCreatesWhenForced ==
    /\ (call.op = "start" /\ ~call.force /\ AllProbes("ABSENT"))
          => (log = <<>> /\ (Done => result = "MustUseForceError"))
    /\ (call.op = "start" /\ ~call.check /\ ~interfered /\ NoFailure)
          => /\ (call.force /\ ~LacksParameter /\ FirstProbe({"ABSENT"}))
                  => IssuesExactly(<<"create", "start">>)
             /\ FirstProbe({"STOPPED"}) => IssuesExactly(<<"start">>)

C8_Witness ==
    /\ Done /\ call.op = "start" /\ call.force /\ ~call.check /\ ~interfered
    /\ ~LacksParameter /\ probes[1] = "ABSENT"
    /\ Cmds = <<"create", "start">> /\ NoFailure /\ result = "True" /\ real = "RUNNING"

\* the other cases of C8
C8_WitnessMustForce ==
    /\ Done /\ call.op = "start" /\ ~call.force /\ ~call.check
    /\ probes = <<"ABSENT", "ABSENT">> /\ result = "MustUseForceError" /\ log = <<>>

C8_WitnessStopped ==
    /\ Done /\ call.op = "start" /\ ~call.check /\ ~interfered
    /\ probes[1] = "STOPPED" /\ Cmds = <<"start">> /\ result = "True"

----------------------------------------------------------------------------
(* C9 *)

\* the state an operation aims at
InTarget(op, st) ==
    CASE op = "stop"   -> st = "STOPPED"
      [] op = "start"  -> st = "RUNNING"
      [] op = "create" -> st \in {"RUNNING", "STOPPED"}
      [] OTHER         -> FALSE

\* C9: a stop, start or create whose first probe returned the state the
\* operation aims at (STOPPED for stop, RUNNING for start, RUNNING or STOPPED
\* for create) issues no delegated command and returns False without raising;
\* and a stop, start or create (check=False) that returned, with no change from
\* outside, leaves the container in the state it aims at, so that the same
\* operation called next finds it there and issues nothing.
C9_IdempotentInTargetState ==
    /\ (call.op \in {"stop", "start", "create"} /\ probes # <<>> /\ InTarget(call.op, probes[1]))
          => (log = <<>> /\ Len(probes) = 1 /\ Done /\ result = "False")
    /\ (call.op \in {"stop", "start", "create"} /\ ~call.check /\ Done /\ ~interfered
        /\ result \in {"True", "False"})
          => InTarget(call.op, Probe)

C9_Witness ==
    /\ Done /\ call.op = "stop" /\ ~call.check
    /\ probes = <<"STOPPED">> /\ log = <<>> /\ result = "False"

\* the other case of C9: a stop that did run its command left the container stopped
C9_WitnessAfterSuccess ==
    /\ Done /\ call.op = "stop" /\ ~call.check /\ ~interfered
    /\ probes = <<"RUNNING">> /\ Cmds = <<"stop">> /\ result = "True" /\ Probe = "STOPPED"

----------------------------------------------------------------------------
(* C10 *)

\* C10: every probe of the state returns one of RUNNING, STOPPED, ABSENT,
\* whatever the inspection command answered, and no call ends with an error
\* raised by the probe itself.
C10_ProbeIsTotal ==
    /\ \A i \in 1..Len(probes) : probes[i] \in State
    /\ result \notin {"KeyError", "IndexError"}

----------------------------------------------------------------------------
(* C13 *)

\* the last delegated command of the call
Last == log[Len(log)]

\* C13: when a batch-mode delegated command has exited non-zero, the call has
\* raised SystemdRunError, whose command is the complete systemd-run argument
\* vector and whose output is the text the command wrote, standard error included.
C13_ErrorCarriesWrittenText ==
    (log # <<>> /\ ~Last.bind /\ Last.done /\ Last.rc # 0)
        => /\ result = "SystemdRunError"
           /\ error.raised
           /\ error.command = CompleteCommand(Last.unit, RuntimeCommand(Last.op, call.command))
           /\ error.output = Last.stdout \o Last.stderr

----------------------------------------------------------------------------
(* C14 *)

\* C14: on a host where lxc-info cannot be invoked, the first probe of a
\* lifecycle call raises FileNotFoundError instead of returning ABSENT, the
\* call ends with that error and has issued no delegated command; a probe
\* returns ABSENT only for an inspection command that ran and exited non-zero.
C14_MissingToolIsNotAbsent ==
    /\ (~tool /\ probes # <<>>)
          => (probes = <<"FileNotFoundError">> /\ Done /\ result = "FileNotFoundError" /\ log = <<>>)
    /\ Probe = "ABSENT" => (LxcInfoState(real).found /\ LxcInfoState(real).rc # 0)
    /\ \A i \in 1..Len(probes) : probes[i] = "ABSENT" => tool

C14_Witness ==
    /\ ~tool /\ Done /\ call.op = "destroy" /\ call.force /\ ~call.check
    /\ probes = <<"FileNotFoundError">> /\ result = "FileNotFoundError" /\ log = <<>>

----------------------------------------------------------------------------
(* C15 *)

\* C15: a delegated command that exited non-zero is the last command of its
\* call: the call has ended by raising SystemdRunError for that very command,
\* no command was issued after it and the call returned no result.
C15_FailureEndsTheCall ==
    \A i \in 1..Len(log) :
        (log[i].done /\ log[i].rc # 0)
            => /\ i = Len(log)
               /\ Done
               /\ result = "SystemdRunError"
               /\ error.raised /\ error.command = log[i].argv

\* start found the container stopped, it was removed before create() probed, lxc-create failed
C15_Witness ==
    /\ Done /\ call.op = "start" /\ ~call.check /\ interfered
    /\ Cmds = <<"create">> /\ log[1].rc = 1
    /\ result = "SystemdRunError" /\ error.command = log[1].argv

----------------------------------------------------------------------------
(* C16 *)

\* C16: with no change from outside and no command failing, restart(force,
\* check=False) issues stop then start on a running container, start alone on
\* a stopped one, and on an absent one issues no stop command and does what
\* start does: MustUseForceError without force, create then start with force.
C16_RestartIsStopThenStart ==
    (call.op = "restart" /\ ~call.check /\ ~interfered /\ NoFailure)
        => /\ FirstProbe({"RUNNING"}) => IssuesExactly(<<"stop", "start">>)
           /\ FirstProbe({"STOPPED"}) => IssuesExactly(<<"start">>)
           /\ FirstProbe({"ABSENT"})
                => /\ \A i \in 1..Len(log) : log[i].op # "stop"
                   /\ (~call.force /\ Done) => result = "MustUseForceError"
                   /\ (call.force /\ ~LacksParameter) => IssuesExactly(<<"create", "start">>)

\* the part of C16 that does not meet stop() on an absent container
C16_RestartOfExistingContainer ==
    (call.op = "restart" /\ ~call.check /\ ~interfered /\ NoFailure)
        => /\ FirstProbe({"RUNNING"}) => IssuesExactly(<<"stop", "start">>)
           /\ FirstProbe({"STOPPED"}) => IssuesExactly(<<"start">>)

----------------------------------------------------------------------------
(* C18 *)

\* C18 as stated: a bind-mode delegated command that has exited, with any
\* exit code, made the run return to its caller: no SystemdRunError is raised.
C18_BindReturnsExitCode ==
    (log # <<>> /\ Last.bind /\ Last.done) => (result # "SystemdRunError" /\ ~error.raised)

\* C18, amended: in bind mode the call goes no further until the child has
\* exited; on exit code 0 the run returns and nothing is raised; on a non-zero
\* exit code SystemdRunError is raised with the complete command and output
\* None (nothing captured); in batch mode a non-zero exit raises
\* SystemdRunError with the captured standard output.
C18_BindRaisesWithoutOutput ==
    log # <<>> =>
        /\ ~Last.done => (Running /\ result = "none" /\ ~error.raised)
        /\ (Last.bind /\ Last.done /\ Last.rc = 0) => (result = "True" /\ ~error.raised)
        /\ (Last.bind /\ Last.done /\ Last.rc # 0)
              => (result = "SystemdRunError" /\ error.command = Last.argv /\ error.output = "None")
        /\ (~Last.bind /\ Last.done /\ Last.rc # 0)
              => (result = "SystemdRunError" /\ error.command = Last.argv /\ error.output = Last.stdout)

C18_Witness ==
    /\ Done /\ call.op = "attach" /\ call.bind /\ ~call.check
    /\ Cmds = <<"attach">> /\ Last.bind /\ Last.rc = 1 /\ Last.stdout = "usage"
    /\ result = "SystemdRunError" /\ error.raised /\ error.output = "None"

----------------------------------------------------------------------------
(* C19 *)

\* C19: in a call with check=True, of any operation, force value and initial
\* state, no delegated command is ever issued, nested calls included, and no
\* step of the call changes the container's state (only a change from outside does).
C19_DryRunChangesNothing ==
    [][ /\ call'.check => log' = <<>>
        /\ (call.check /\ call' = call /\ real' # real) => ExternalChange ]_vars

C19_Witness ==
    /\ Done /\ call.op = "destroy" /\ call.force /\ call.check /\ ~interfered
    /\ probes = <<"RUNNING", "RUNNING", "RUNNING", "RUNNING">>
    /\ result = "True" /\ log = <<>> /\ real = "RUNNING"

----------------------------------------------------------------------------
(* C20 *)

\* C20: whatever changes from outside happen between its probes, a
\* start(force=False) never issues the create command and a
\* destroy(force=False) never issues the stop command.
C20_NoForceNoPrerequisite ==
    /\ (call.op = "start" /\ ~call.force) => \A i \in 1..Len(log) : log[i].op # "create"
    /\ (call.op = "destroy" /\ ~call.force) => \A i \in 1..Len(log) : log[i].op # "stop"

\* C20, amended: a start(force=False) issues the create command, and a
\* destroy(force=False) the stop command, only when the container's state was
\* changed from outside between the probes of the call: create, when start's
\* force test did not find the container absent and create()'s own probe then
\* did; stop, when destroy's force test found it stopped and stop()'s own probe
\* then did not.  With no change from outside neither is ever issued.
C20_PrerequisiteOnlyAfterOutsideChange ==
    /\ (call.op = "start" /\ ~call.force /\ \E i \in 1..Len(log) : log[i].op = "create")
          => (interfered /\ Len(probes) = 3 /\ probes[2] # "ABSENT" /\ probes[3] = "ABSENT")
    /\ (call.op = "destroy" /\ ~call.force /\ \E i \in 1..Len(log) : log[i].op = "stop")
          => (interfered /\ Len(probes) = 4 /\ probes[2] = "STOPPED" /\ probes[4] \in {"RUNNING", "ABSENT"})

\* start(force=False) on a stopped container, undisturbed: the start command alone
C20_Witness ==
    /\ Done /\ call.op = "start" /\ ~call.force /\ ~call.check /\ ~interfered
    /\ probes = <<"STOPPED", "STOPPED", "STOPPED">> /\ Cmds = <<"start">> /\ result = "True"

\* the case the amendment adds: the stop command of a destroy(force=False)
C20_WitnessDisturbed ==
    /\ call.op = "destroy" /\ ~call.force /\ interfered
    /\ probes = <<"STOPPED", "STOPPED", "STOPPED", "RUNNING">> /\ Cmds = <<"stop">>

----------------------------------------------------------------------------
(* C11 *)

\* C11: whenever the inspection command exits non-zero, the state property
\* returns ABSENT without raising, and info() returns the dict whose only key
\* is state, with value State.ABSENT.
C11_AbsentInfoIsStateOnly ==
    (LxcInfoAll(real, ips, pid).found /\ LxcInfoAll(real, ips, pid).rc # 0)
        => /\ probes # <<>> => probes = <<"ABSENT">>
           /\ infos # NoInfos
                => /\ infos.kind = "dict"
                   /\ DOMAIN infos.d = {<<"state">>}
                   /\ infos.d[<<"state">>] = StateVal("ABSENT")

C11_Witness ==
    /\ tool /\ real = "ABSENT"
    /\ probes = <<"ABSENT">>
    /\ infos.kind = "dict" /\ DOMAIN infos.d = {<<"state">>}

----------------------------------------------------------------------------
(* C12 *)

\* the value info() should give for the texts of one key
ValueOf(texts) == IF Len(texts) = 1 THEN StrVal(texts[1]) ELSE ListVal(texts)

\* C12: the dict info() returns maps state to the State member of the state
\* line, and every other key to the complete value text of its line when the
\* key appears once, to the list of the complete value texts of its lines, in
\* the order printed, when it appears several times.
C12_InfoKeepsWholeValues ==
    infos.kind = "dict" /\ real # "ABSENT"
        => /\ DOMAIN infos.d = {<<"state">>} \cup (IF pid THEN {<<"pid">>} ELSE {})
                                \cup (IF ips # <<>> THEN {<<"ip">>} ELSE {})
           /\ infos.d[<<"state">>] = StateVal(real)
           /\ pid => infos.d[<<"pid">>] = StrVal(PidText)
           /\ ips # <<>> => infos.d[<<"ip">>] = ValueOf(ips)

\* C12 for the addresses that hold no colon
C12_InfoKeepsColonFreeValues ==
    (infos.kind = "dict" /\ real # "ABSENT" /\ \A i \in 1..Len(ips) : ips[i] = Ipv4)
        => /\ DOMAIN infos.d = {<<"state">>} \cup (IF pid THEN {<<"pid">>} ELSE {})
                                \cup (IF ips # <<>> THEN {<<"ip">>} ELSE {})
           /\ infos.d[<<"state">>] = StateVal(real)
           /\ pid => infos.d[<<"pid">>] = StrVal(PidText)
           /\ ips # <<>> => infos.d[<<"ip">>] = ValueOf(ips)

----------------------------------------------------------------------------
(* C17 *)

\* C17: the unit name of a delegated command is unique per invocation: while
\* this caller's delegated command and a second caller's delegated command are
\* both executing, their unit names differ.
C17_UnitNamesNeverCollide ==
    (CommandInFlight /\ other # NoOther) => Last.unit # other.unit

\* the part of C17 that the naming scheme gives: commands of different
\* operations never share a unit name
C17_DifferentOperationsDiffer ==
    (CommandInFlight /\ other # NoOther /\ Last.op # other.op) => Last.unit # other.unit

====
